---------------------------- MODULE Spec2Model ----------------------------
(***************************************************************************)
(* MOLIT press-release notifier (.github/workflows/molit_bot_now.py; the   *)
(* older molit_bot.py shares fetch_recent_for_section and the chunk loop). *)
(*                                                                         *)
(* One run of main() is a sequential process.  Its position is pc; every   *)
(* network call (listing GET, detail GET, sendMessage POST) and every file *)
(* access is a point where the environment chooses the outcome.            *)
(*                                                                         *)
(* Time is counted in ticks, Day ticks to a calendar day, so that          *)
(* timedelta(hours=24) = timedelta(days=1) = Day and .date() is t \div Day *)
(* (Asia/Seoul has no daylight saving).                                    *)
(***************************************************************************)
EXTENDS Integers, Sequences, FiniteSets, TLC

VARIABLES
    pc,           \* position of the process in main()
    run,          \* number of runs started so far
    cfg_ok,       \* BOT_TOKEN and CHAT_ID are both set
    now_kst,      \* now_kst of the current run
    cat,          \* index into wanted of the category being fetched
    page,         \* loop variable of fetch_recent_for_section
    rows,         \* rows of the listing page being processed
    ri,           \* index of the next row of rows
    stop_paging,
    items,        \* items of the current fetch_recent_for_section call
    all_items,
    sent,         \* the set returned by load_cache, as main() tests it
    new_items,
    lines,
    li,           \* index of the next line of lines
    chunk,
    buf,
    cache_file,   \* contents of CACHE_PATH
    delivered,    \* texts accepted by sendMessage in this run, in order
    error,        \* exception that ended the run, "none" when none did
    \* history variables (not read by the program)
    page_base,    \* Len(items) when the current listing page was fetched
    fetched,      \* listing pages requested by the current fetch call
    old_seen,     \* pages of the current fetch call that showed a too-old row
    got,          \* indices of the rows of this page whose detail was requested
    net,          \* kinds of request issued so far in this run
    n_post,       \* sendMessage POSTs issued in this run
    n_rows,       \* listing rows served to this run
    saves,        \* outcomes of the save_cache calls of this run, in order
    prev,         \* how the previous run ended and the links it collected
    load_raised   \* the read in load_cache raised in this run

vars == <<pc, run, cfg_ok, now_kst, cat, page, rows, ri, stop_paging, items,
          all_items, sent, new_items, lines, li, chunk, buf, cache_file,
          delivered, error, page_base, fetched, old_seen, got, net, n_post,
          n_rows, saves, prev, load_raised>>

----------------------------------------------------------------------------
(* Bounds of the model *)

Day == 2            \* ticks per calendar day
MaxRows == 2        \* listing rows served to one run
MaxPageRows == 2    \* rows on one listing page
MaxRuns == 2        \* consecutive runs
MaxChunkItems == 3  \* items of a digest whose chunking is examined

(* Program constants *)

NumCats == 3        \* len(wanted)
max_pages == 3
MAX_CACHE == 2      \* 300 in the source, scaled with the number of links
Budget == 3500
HeaderLen == 59     \* len(header)
ItemOverhead == 45  \* an item block without title, summary and link

NoDate == -1        \* row_date = None
NoStamp == -2       \* parse_detail_datetime_kst returned None

----------------------------------------------------------------------------
(* What the environment may serve *)

Cats == 1..NumCats                        \* wanted, in its declared order
Nows == {2 * Day, 2 * Day + 1}            \* clock readings of a run
Times == (Day - 1)..(2 * Day + 2)         \* timestamps a detail page may show
Dates == 0..2                             \* coarse dates a listing row may show
Links == 1..3
ShortText == 1700                         \* len(title + summary + link)
LongText == 3600

DateOf(t) == t \div Day                   \* datetime.date()

(* A listing row together with what a GET of its link returns:             *)
(*   date   the parsed date_str, NoDate when strptime raises               *)
(*   get    "ok", or "error" when session.get / raise_for_status raises    *)
(*   stamp  the timestamp on the detail page, NoStamp when the regex fails *)
(*   text   len(title) + len(summary) + len(link)                          *)
Row(l, d, g, s, t) == [link |-> l, date |-> d, get |-> g, stamp |-> s, text |-> t]

\* every coarse date against every detail outcome, one article
FetchRows ==
    {Row(1, d, "ok", s, ShortText) : d \in Dates \cup {NoDate}, s \in Times \cup {NoStamp}}
    \cup {Row(1, d, "error", NoStamp, ShortText) : d \in Dates \cup {NoDate}}

\* several articles, in the window or too old
RunRows ==
    {Row(l, DateOf(s), "ok", s, IF l = 3 THEN LongText ELSE ShortText) :
        l \in Links, s \in {Day, 2 * Day}}
    \cup {Row(1, 0, "ok", 0, ShortText), Row(2, 2, "error", NoStamp, ShortText)}

SeqsUpTo(S, n) == UNION {[1..k -> S] : k \in 0..n}

Min(a, b) == IF a < b THEN a ELSE b

----------------------------------------------------------------------------
(* fetch_recent_for_section *)

since_kst == now_kst - Day

\* a pre-filter that compares with today's date, not yesterday's
RowTooOldBeforeToday(row, now) == row.date # NoDate /\ row.date < DateOf(now)

\* "row_date and row_date < (now_kst - timedelta(days=1)).date()"
RowTooOld(row, now) == row.date # NoDate /\ row.date < DateOf(now - Day)

\* the window with its lower edge left out
InWindowOpen(dt, since, now) == since < dt /\ dt <= now

\* "since_kst <= dt_kst <= now_kst"
InWindow(dt, since, now) == since <= dt /\ dt <= now

MakeItem(row, c) ==
    [dt |-> row.stamp, link |-> row.link, category |-> c, text |-> row.text]

\* a loop without "if not dt_kst: continue": an unresolved row counts as recent
RowStepKeepingUnresolved(its, row, c, since, now) ==
    IF RowTooOld(row, now) THEN its
    ELSE IF row.get # "ok" THEN its
    ELSE IF row.stamp = NoStamp \/ InWindow(row.stamp, since, now)
         THEN Append(its, MakeItem(row, c))
    ELSE its

\* a loop that leaves the page at the too-old row ("break" for "continue"):
\* once the signal is up no row of the page is looked at
RowStepCutShort(its, row, c, since, now) ==
    IF stop_paging \/ RowTooOld(row, now) THEN its
    ELSE IF row.get # "ok" THEN its
    ELSE IF row.stamp = NoStamp THEN its
    ELSE IF InWindow(row.stamp, since, now) THEN Append(its, MakeItem(row, c))
    ELSE its

\* one iteration of "for row in rows": the items afterwards
RowStep(its, row, c, since, now) ==
    IF RowTooOld(row, now) THEN its
    ELSE IF row.get # "ok" THEN its
    ELSE IF row.stamp = NoStamp THEN its
    ELSE IF InWindow(row.stamp, since, now) THEN Append(its, MakeItem(row, c))
    ELSE its

\* "return items" and the next iteration of "for name in wanted"
Return(its) ==
    /\ all_items' = all_items \o its
    /\ items' = <<>>
    /\ page' = 1 /\ rows' = <<>> /\ ri' = 1 /\ stop_paging' = FALSE
    /\ page_base' = 0 /\ got' = {}
    /\ IF cat < NumCats
          THEN cat' = cat + 1 /\ pc' = "page"
          ELSE cat' = cat /\ pc' = "load"

\* the process starts: the credentials are read and main() reads the clock
StartRun(max_runs, clock, creds) ==
    /\ pc \in {"idle", "done", "failed"}
    /\ run < max_runs
    /\ run' = run + 1
    /\ \E t \in clock : t >= now_kst /\ now_kst' = t
    /\ cfg_ok' \in creds
    /\ pc' = "page"
    /\ cat' = 1 /\ page' = 1
    /\ rows' = <<>> /\ ri' = 1 /\ stop_paging' = FALSE
    /\ items' = <<>> /\ all_items' = <<>>
    /\ sent' = {} /\ new_items' = <<>> /\ lines' = <<>> /\ li' = 1
    /\ chunk' = <<>> /\ buf' = 0
    /\ delivered' = <<>> /\ error' = "none"
    /\ page_base' = 0 /\ fetched' = {} /\ old_seen' = {}
    /\ got' = {} /\ net' = {} /\ n_post' = 0 /\ n_rows' = 0 /\ saves' = <<>>
    /\ prev' = [pc |-> pc, saves |-> saves,
                collected |-> {all_items[k].link : k \in DOMAIN all_items}]
    /\ load_raised' = FALSE
    /\ UNCHANGED cache_file

\* get_soup + parse_list_rows for the current page
GetListing(RowSet, max_rows) ==
    /\ pc = "page"
    /\ fetched' = (IF page = 1 THEN {} ELSE fetched) \cup {page}
    /\ old_seen' = IF page = 1 THEN {} ELSE old_seen
    /\ net' = net \cup {"list"}
    /\ \/ /\ pc' = "failed" /\ error' = "transport"     \* get_soup raises
          /\ UNCHANGED <<rows, ri, stop_paging, items, all_items, cat, page,
                         page_base, got, n_rows>>
       \/ \E rs \in SeqsUpTo(RowSet, Min(MaxPageRows, max_rows - n_rows)) :
            /\ n_rows' = n_rows + Len(rs)
            /\ error' = error
            /\ IF rs = <<>>
                  THEN Return(items)                    \* if not rows: break
                  ELSE /\ pc' = "row"
                       /\ rows' = rs /\ ri' = 1 /\ stop_paging' = FALSE
                       /\ page_base' = Len(items) /\ got' = {}
                       /\ UNCHANGED <<items, all_items, cat, page>>
    /\ UNCHANGED <<run, cfg_ok, now_kst, sent, new_items, lines, li, chunk, buf,
                   cache_file, delivered, n_post, saves, prev, load_raised>>

\* one iteration of "for row in rows"
ProcessRow ==
    /\ pc = "row"
    /\ ri <= Len(rows)
    /\ LET row == rows[ri] IN
         /\ stop_paging' = (stop_paging \/ RowTooOld(row, now_kst))
         /\ old_seen' = IF RowTooOld(row, now_kst)
                           THEN old_seen \cup {page} ELSE old_seen
         /\ got' = IF RowTooOld(row, now_kst) THEN got ELSE got \cup {ri}
         /\ net' = IF RowTooOld(row, now_kst) THEN net ELSE net \cup {"detail"}
         /\ items' = RowStep(items, row, cat, since_kst, now_kst)
    /\ ri' = ri + 1
    /\ UNCHANGED <<pc, run, cfg_ok, now_kst, cat, page, rows, all_items, sent,
                   new_items, lines, li, chunk, buf, cache_file, delivered, error,
                   page_base, fetched, n_post, n_rows, saves, prev, load_raised>>

\* a loop that forgets "if stop_paging: break"
LastPageIgnoringStop(stop, p) == p = max_pages

\* the loop over pages ends after this page
LastPage(stop, p) == stop \/ p = max_pages

\* the end of "for row in rows": "if stop_paging: break", else the next page
EndPage ==
    /\ pc = "row"
    /\ ri > Len(rows)
    /\ IF LastPage(stop_paging, page)
          THEN Return(items)
          ELSE /\ pc' = "page" /\ page' = page + 1
               /\ UNCHANGED <<items, all_items, cat, rows, ri, stop_paging,
                              page_base, got>>
    /\ UNCHANGED <<run, cfg_ok, now_kst, sent, new_items, lines, li, chunk, buf,
                   cache_file, delivered, error, fetched, old_seen, net, n_post,
                   n_rows, saves, prev, load_raised>>

----------------------------------------------------------------------------
(* load_cache, the digest, send and save_cache *)

LinksOf(its) == {its[k].link : k \in DOMAIN its}

\* a load_cache whose "except" hands back whatever links the file holds
LoadResultStale(file, ok) == {file.links[k] : k \in DOMAIN file.links}

\* load_cache: the links of the file, the empty set when reading it raises
LoadResult(file, ok) ==
    IF ok /\ file.readable THEN {file.links[k] : k \in DOMAIN file.links} ELSE {}

\* a filter that lets every item through
DedupNothing(its, seen) == its

\* [it for it in all_items if it["link"] not in sent]
Dedup(its, seen) == SelectSeq(its, LAMBDA it : it.link \notin seen)

\* list.sort(key=dt, reverse=True): stable, equal keys keep their order
InsertDesc(s, x) ==
    LET p == Cardinality({k \in DOMAIN s : s[k].dt >= x.dt})
    IN  SubSeq(s, 1, p) \o <<x>> \o SubSeq(s, p + 1, Len(s))

\* "sort(key=dt); reverse()": newest first, but equal keys change places
RECURSIVE SortThenReverse(_)
SortThenReverse(s) ==
    IF s = <<>> THEN <<>>
    ELSE LET r == SortThenReverse(SubSeq(s, 1, Len(s) - 1))
             x == s[Len(s)]
             p == Cardinality({k \in DOMAIN r : r[k].dt > x.dt})
         IN  SubSeq(r, 1, p) \o <<x>> \o SubSeq(r, p + 1, Len(r))

RECURSIVE SortDesc(_)
SortDesc(s) ==
    IF s = <<>> THEN <<>>
    ELSE InsertDesc(SortDesc(SubSeq(s, 1, Len(s) - 1)), s[Len(s)])

\* a rendered line: its length, and what it shows (for the header and the
\* "no new items" message dt is the "{now_kst:%Y-%m-%d %H:%M}" they print)
Line(k, n, c, l, t) == [kind |-> k, len |-> n, category |-> c, link |-> l, dt |-> t]

CatLen(c) == IF c = 3 THEN 4 ELSE 6        \* len("[일반]"), len("[주택토지]")

HeaderLine == Line("header", HeaderLen, 0, 0, now_kst)
BlankLine == Line("blank", 0, 0, 0, 0)
CatLine(c) == Line("category", CatLen(c), c, 0, 0)
ItemLine(it) == Line("item", ItemOverhead + it.text, it.category, it.link, it.dt)

\* a loop that never assigns last_cat: every block gets a category header
RECURSIVE ItemLinesLastCatUnset(_, _, _)
ItemLinesLastCatUnset(its, k, last_cat) ==
    IF k > Len(its) THEN <<>>
    ELSE (IF its[k].category # last_cat THEN <<CatLine(its[k].category)>> ELSE <<>>)
         \o <<ItemLine(its[k])>>
         \o ItemLinesLastCatUnset(its, k + 1, last_cat)

\* the lines of the items from index k on, last_cat being the category before
RECURSIVE ItemLines(_, _, _)
ItemLines(its, k, last_cat) ==
    IF k > Len(its) THEN <<>>
    ELSE (IF its[k].category # last_cat THEN <<CatLine(its[k].category)>> ELSE <<>>)
         \o <<ItemLine(its[k])>>
         \o ItemLines(its, k + 1, its[k].category)

Render(its) == <<HeaderLine, BlankLine>> \o ItemLines(its, 1, 0)

\* the "no new items" message
EmptyMessage == <<Line("empty", HeaderLen + 24, 0, 0, now_kst)>>

\* a test that looks at the budget only once the chunk is over it
OverflowsLate(b, line) == b > Budget

\* "buf + len(line) + 1 > 3500"
Overflows(b, line) == b + line.len + 1 > Budget

\* a send that posts without looking at the credentials
SendUnchecked(text, next_pc) ==
    /\ n_post' = n_post + 1
    /\ net' = net \cup {"post"}
    /\ \/ /\ delivered' = Append(delivered, text)
          /\ pc' = next_pc /\ error' = error
       \/ /\ error' = "transport" /\ pc' = "failed"
          /\ UNCHANGED delivered

\* a send without "r.raise_for_status()": a refused POST goes unnoticed
SendUnraised(text, next_pc) ==
    IF ~cfg_ok
       THEN /\ error' = "config" /\ pc' = "failed"
            /\ UNCHANGED <<delivered, n_post, net>>
       ELSE /\ n_post' = n_post + 1
            /\ net' = net \cup {"post"}
            /\ pc' = next_pc /\ error' = error
            /\ \/ delivered' = Append(delivered, text)
               \/ UNCHANGED delivered

\* send(text): RuntimeError without credentials, else the POST, which may raise
Send(text, next_pc) ==
    IF ~cfg_ok
       THEN /\ error' = "config" /\ pc' = "failed"
            /\ UNCHANGED <<delivered, n_post, net>>
       ELSE /\ n_post' = n_post + 1
            /\ net' = net \cup {"post"}
            /\ \/ /\ delivered' = Append(delivered, text)
                  /\ pc' = next_pc /\ error' = error
               \/ /\ error' = "transport" /\ pc' = "failed"
                  /\ UNCHANGED delivered

\* sent = load_cache(); new_items; the sort and the rendering of lines
LoadCache ==
    /\ pc = "load"
    /\ \E ok \in BOOLEAN :
         /\ sent' = LoadResult(cache_file, ok)
         /\ load_raised' = ~(ok /\ cache_file.readable)
         /\ new_items' = SortDesc(Dedup(all_items, sent'))
    /\ IF new_items' = <<>>
          THEN pc' = "send_empty" /\ lines' = <<>>
          ELSE pc' = "chunk" /\ lines' = Render(new_items')
    /\ li' = 1 /\ chunk' = <<>> /\ buf' = 0
    /\ fetched' = {} /\ old_seen' = {} /\ n_rows' = 0  \* the fetch calls are over
    /\ UNCHANGED <<run, cfg_ok, now_kst, cat, page, rows, ri, stop_paging, items,
                   all_items, cache_file, delivered, error, page_base, got, net,
                   n_post, saves, prev>>

\* a main() that forgets the "return" after the "no new items" message
SendEmptyAndGoOn ==
    /\ pc = "send_empty"
    /\ Send(EmptyMessage, "chunk")
    /\ UNCHANGED <<run, cfg_ok, now_kst, cat, page, rows, ri, stop_paging, items,
                   all_items, sent, new_items, lines, li, chunk, buf, cache_file,
                   page_base, fetched, old_seen, got, n_rows, saves, prev, load_raised>>

\* "if not new_items: send(...); return"
SendEmpty ==
    /\ pc = "send_empty"
    /\ Send(EmptyMessage, "done")
    /\ UNCHANGED <<run, cfg_ok, now_kst, cat, page, rows, ri, stop_paging, items,
                   all_items, sent, new_items, lines, li, chunk, buf, cache_file,
                   page_base, fetched, old_seen, got, n_rows, saves, prev, load_raised>>

\* a loop that goes to the next line once it has sent the full chunk: the
\* line that did not fit is in no chunk
ChunkLineDroppingLine ==
    /\ pc = "chunk"
    /\ li <= Len(lines)
    /\ LET line == lines[li] IN
         IF Overflows(buf, line)
            THEN /\ Send(chunk, "chunk")
                 /\ IF pc' = "failed"
                       THEN UNCHANGED <<chunk, buf, li>>
                       ELSE /\ chunk' = <<>>
                            /\ buf' = 0
                            /\ li' = li + 1
            ELSE /\ chunk' = Append(chunk, line)
                 /\ buf' = buf + line.len + 1
                 /\ li' = li + 1
                 /\ UNCHANGED <<pc, error, delivered, n_post, net>>
    /\ UNCHANGED <<run, cfg_ok, now_kst, cat, page, rows, ri, stop_paging, items,
                   all_items, sent, new_items, lines, cache_file, page_base,
                   fetched, old_seen, got, n_rows, saves, prev, load_raised>>

\* one iteration of "for line in lines"
ChunkLine ==
    /\ pc = "chunk"
    /\ li <= Len(lines)
    /\ LET line == lines[li] IN
         IF Overflows(buf, line)
            THEN /\ Send(chunk, "chunk")
                 /\ IF pc' = "failed"
                       THEN UNCHANGED <<chunk, buf, li>>
                       ELSE /\ chunk' = <<line>>
                            /\ buf' = line.len + 1
                            /\ li' = li + 1
            ELSE /\ chunk' = Append(chunk, line)
                 /\ buf' = buf + line.len + 1
                 /\ li' = li + 1
                 /\ UNCHANGED <<pc, error, delivered, n_post, net>>
    /\ UNCHANGED <<run, cfg_ok, now_kst, cat, page, rows, ri, stop_paging, items,
                   all_items, sent, new_items, lines, cache_file, page_base,
                   fetched, old_seen, got, n_rows, saves, prev, load_raised>>

\* "if chunk: send(...)" after the loop
FinalSend ==
    /\ pc = "chunk"
    /\ li > Len(lines)
    /\ IF chunk # <<>>
          THEN Send(chunk, "save")
          ELSE pc' = "save" /\ UNCHANGED <<error, delivered, n_post, net>>
    /\ UNCHANGED <<run, cfg_ok, now_kst, cat, page, rows, ri, stop_paging, items,
                   all_items, sent, new_items, lines, li, chunk, buf, cache_file,
                   page_base, fetched, old_seen, got, n_rows, saves, prev, load_raised>>

\* list(links_set): a set has no order of its own, any order may come out
Orders(S) == {f \in [1..Cardinality(S) -> S] : \A a, b \in DOMAIN f : f[a] = f[b] => a = b}

\* a save that writes every link it is given
TruncateNothing(links) == links

\* links[-MAX_CACHE:] when len(links) > MAX_CACHE
Truncate(links) ==
    IF Len(links) > MAX_CACHE
       THEN SubSeq(links, Len(links) - MAX_CACHE + 1, Len(links))
       ELSE links

\* the file a successful save_cache(links_set) may write
Written(links_set) ==
    {[readable |-> TRUE, links |-> Truncate(o)] : o \in Orders(links_set)}

\* the file after a write that raised (swallowed): untouched, or cut short
Spoiled(file) == {file, [readable |-> FALSE, links |-> <<>>]}

\* "for it in new_items: sent.add(it["link"])" and save_cache(sent); main()
\* returns, the enlarged set lives only within this step
SaveCache ==
    /\ pc = "save"
    /\ \/ /\ cache_file' \in Written(sent \cup LinksOf(new_items))
          /\ saves' = Append(saves, "written")
       \/ /\ cache_file' \in Spoiled(cache_file)
          /\ saves' = Append(saves, "raised")
    /\ pc' = "done"
    /\ UNCHANGED <<run, cfg_ok, now_kst, cat, page, rows, ri, stop_paging, items,
                   all_items, sent, new_items, lines, li, chunk, buf, delivered,
                   error, page_base, fetched, old_seen, got, net, n_post, n_rows,
                   prev, load_raised>>

----------------------------------------------------------------------------
(* The specifications *)

NoFile == [readable |-> FALSE, links |-> <<>>]

\* what earlier runs may have left at CACHE_PATH: nothing, or what save_cache
\* writes, at most MAX_CACHE distinct links
CacheFiles ==
    {NoFile} \cup
    {[readable |-> TRUE, links |-> o] :
        o \in UNION {Orders(S) : S \in {T \in SUBSET Links : Cardinality(T) <= MAX_CACHE}}}

\* the state of a process at position p, before main() has done anything
Fresh(p, r, file) ==
    /\ pc = p /\ run = r
    /\ cat = 1 /\ page = 1 /\ rows = <<>> /\ ri = 1 /\ stop_paging = FALSE
    /\ items = <<>> /\ all_items = <<>>
    /\ sent = {} /\ new_items = <<>> /\ lines = <<>> /\ li = 1
    /\ chunk = <<>> /\ buf = 0
    /\ cache_file = file
    /\ delivered = <<>> /\ error = "none"
    /\ page_base = 0 /\ fetched = {} /\ old_seen = {}
    /\ got = {} /\ net = {} /\ n_post = 0 /\ n_rows = 0 /\ saves = <<>>
    /\ prev = [pc |-> "idle", saves |-> <<>>, collected |-> {}]
    /\ load_raised = FALSE

Init ==
    /\ cfg_ok = TRUE /\ now_kst = 0
    /\ \E file \in CacheFiles : Fresh("idle", 0, file)

\* one run of main() against a site with several articles
Next ==
    \/ StartRun(1, Nows, BOOLEAN)
    \/ GetListing(RunRows, MaxRows)
    \/ ProcessRow
    \/ EndPage
    \/ LoadCache
    \/ SendEmpty
    \/ ChunkLine
    \/ FinalSend
    \/ SaveCache

Spec == Init /\ [][Next]_vars

\* consecutive runs against a site whose articles are all in the window
RunsRows == {Row(l, DateOf(2 * Day), "ok", 2 * Day, ShortText) : l \in Links}

NextRuns ==
    \/ StartRun(MaxRuns, {2 * Day}, {TRUE})
    \/ GetListing(RunsRows, 1)                  \* one article a run
    \/ ProcessRow
    \/ EndPage
    \/ LoadCache
    \/ SendEmpty
    \/ ChunkLine
    \/ FinalSend
    \/ SaveCache

SpecRuns == Init /\ [][NextRuns]_vars

\* the fetch calls of one run, every coarse date against every detail outcome
InitFetch ==
    /\ cfg_ok = TRUE /\ now_kst \in Nows
    /\ Fresh("page", 1, NoFile)

NextFetch ==
    \/ GetListing(FetchRows, MaxRows)
    \/ ProcessRow
    \/ EndPage

SpecFetch == InitFetch /\ [][NextFetch]_vars

\* the chunk loop on digests whose blocks sit at the edges of the budget:
\* 3386 fills the first chunk exactly, 3454 fills a chunk alone, 3455 is the
\* first block that fits no chunk
TextLens == {ShortText, 3386, 3387, 3454, 3455, LongText}

ChunkItems ==
    {[dt |-> 2 * Day, link |-> 1, category |-> c, text |-> t] :
        c \in {1, NumCats}, t \in TextLens}

InitChunk ==
    /\ cfg_ok = TRUE /\ now_kst = 2 * Day
    /\ cat = NumCats /\ page = 1 /\ rows = <<>> /\ ri = 1 /\ stop_paging = FALSE
    /\ items = <<>>
    /\ all_items \in SeqsUpTo(ChunkItems, MaxChunkItems) \ {<<>>}
    /\ new_items = SortDesc(Dedup(all_items, {}))
    /\ lines = Render(new_items)
    /\ pc = "chunk" /\ run = 1 /\ sent = {} /\ li = 1 /\ chunk = <<>> /\ buf = 0
    /\ cache_file = NoFile /\ delivered = <<>> /\ error = "none"
    /\ page_base = 0 /\ fetched = {} /\ old_seen = {}
    /\ got = {} /\ net = {"list"} /\ n_post = 0 /\ n_rows = 0 /\ saves = <<>>
    /\ prev = [pc |-> "idle", saves |-> <<>>, collected |-> {}]
    /\ load_raised = FALSE

NextChunk ==
    \/ ChunkLine
    \/ FinalSend

SpecChunk == InitChunk /\ [][NextChunk]_vars

----------------------------------------------------------------------------
(* Properties *)

Range(f) == {f[k] : k \in DOMAIN f}

\* the rows of the current page already processed
Done == SubSeq(rows, 1, ri - 1)

\* the items kept from the current page so far
PageItems == SubSeq(items, page_base + 1, Len(items))

\* the detail GET of the row succeeded and its page shows a timestamp
Resolved(row) == row.get = "ok" /\ row.stamp # NoStamp

(* C1: every item kept has since <= dt <= now, and both edges are inside:  *)
(* a row whose detail page was fetched and resolves to dt = since or to    *)
(* dt = now is kept, no item with dt < since or dt > now ever is.          *)
C1_WindowInclusive ==
    /\ \A it \in Range(items) \cup Range(all_items) :
           since_kst <= it.dt /\ it.dt <= now_kst
    /\ pc = "row" =>
         \A j \in got :
             Resolved(rows[j]) /\ rows[j].stamp \in {since_kst, now_kst}
                 => \E it \in Range(PageItems) :
                        it.dt = rows[j].stamp /\ it.link = rows[j].link

\* a page whose first row sits on the lower edge and is kept, and whose
\* second row is one tick past now and is not
C1_Witness ==
    /\ pc = "row" /\ ri > Len(rows) /\ got = {1, 2}
    /\ rows[1].get = "ok" /\ rows[1].stamp = since_kst
    /\ rows[2].get = "ok" /\ rows[2].stamp = now_kst + 1
    /\ Len(PageItems) = 1 /\ PageItems[1].dt = since_kst

(* C2: within one fetch call, once a row with a coarse date before         *)
(* (now - 24h).date() has been seen on page p, no listing page with a      *)
(* number greater than p is requested.                                     *)
C2_NoPageAfterStop ==
    \A p \in old_seen : \A q \in fetched : q <= p

\* the first category stopped on its second page, and the run went on to the
\* second category without asking for a third page
C2_Witness ==
    /\ pc = "page" /\ cat = 2 /\ page = 1
    /\ old_seen = {2} /\ fetched = {1, 2}

\* the detail GET of the row raised, or its page shows no timestamp
Failed(row) == ~RowTooOld(row, now_kst) /\ ~Resolved(row)

\* the rows with the failed ones taken out
Without(rs) == SelectSeq(rs, LAMBDA row : ~Failed(row))

\* "for row in rows" run over rs from no items
RECURSIVE RowsItems(_, _)
RowsItems(rs, c) ==
    IF rs = <<>> THEN <<>>
    ELSE RowStep(RowsItems(SubSeq(rs, 1, Len(rs) - 1), c), rs[Len(rs)], c,
                 since_kst, now_kst)

RowsStop(rs) == \E k \in DOMAIN rs : RowTooOld(rs[k], now_kst)

\* within a page a failed row leaves no trace: the items kept and the stop
\* signal are those of the page without it, and the run goes on
DropsOnlyThatRow ==
    pc = "row" =>
        /\ PageItems = RowsItems(Without(Done), cat)
        /\ stop_paging = RowsStop(Without(Done))
        /\ Len(PageItems) <= Len(Without(Done))
        /\ error = "none"

DeliveredLinks ==
    UNION {{c[k].link : k \in {j \in DOMAIN c : c[j].kind = "item"}} :
              c \in Range(delivered)}

(* C3: an item whose link is in the set load_cache returned is in no       *)
(* delivered chunk of the run, also when its timestamp is in the window.   *)
C3_SentNeverDelivered == DeliveredLinks \cap sent = {}

\* a digest went out while an item of the window was held back as sent
C3_Witness ==
    /\ pc = "save"
    /\ DeliveredLinks # {}
    /\ \E it \in Range(all_items) :
           it.link \in sent /\ InWindow(it.dt, since_kst, now_kst)

(* C8 as stated: a transport error on a listing fetch ends only that       *)
(* category's pagination; the run is not aborted, so a run never fails     *)
(* before it has come to deliver what it collected.                        *)
C8_ListingErrorEndsOnlyCategory ==
    (pc = "failed" /\ error = "transport") => "post" \in net

(* C9 as stated: with BOT_TOKEN or CHAT_ID missing the run fails with a    *)
(* configuration error raised before any network activity.                 *)
C9_ConfigErrorBeforeNetwork ==
    /\ (run > 0 /\ ~cfg_ok) => "post" \notin net
    /\ error = "config" => net = {}

(* C9 as amended: with BOT_TOKEN or CHAT_ID missing no delivery request is *)
(* ever made and the dedup store is never written; a run that comes to     *)
(* deliver ends there with the configuration error, raised by send before  *)
(* it posts, after the listing and detail fetches of the run.              *)
C9_ConfigErrorBeforeDelivery ==
    /\ (run > 0 /\ ~cfg_ok) =>
           /\ "post" \notin net /\ n_post = 0 /\ delivered = <<>>
           /\ saves = <<>> /\ pc \notin {"save", "done"}
    /\ error = "config" => (~cfg_ok /\ "list" \in net /\ pc = "failed")
    /\ (~cfg_ok /\ pc = "failed" /\ error # "config") => error = "transport"

\* the configuration error came after listing pages and detail pages were read
C9_Witness ==
    /\ error = "config" /\ pc = "failed"
    /\ net = {"list", "detail"} /\ new_items # <<>>

\* the links of the file, oldest first, that load_cache returned, followed by
\* the links main() adds to the set, in the order it adds them
RECURSIVE AddedInOrder(_, _, _)
AddedInOrder(order, its, k) ==
    IF k > Len(its) THEN order
    ELSE AddedInOrder(IF its[k].link \in Range(order) THEN order
                      ELSE Append(order, its[k].link), its, k + 1)

InsertionOrder ==
    AddedInOrder(SelectSeq(cache_file.links, LAMBDA l : l \in sent), new_items, 1)

(* C4 as stated: a run that follows a completed run and collects no link   *)
(* the completed run had not collected delivers nothing but the "no new    *)
(* items" message.  Both runs are taken without any failure of the file:   *)
(* the first wrote the store if it saved, the second read it.              *)
C4_SecondDigestEmpty ==
    ( /\ run = 2 /\ pc \in {"send_empty", "chunk"}
      /\ prev.pc = "done" /\ "raised" \notin Range(prev.saves)
      /\ cache_file.readable /\ sent = Range(cache_file.links)
      /\ LinksOf(all_items) \subseteq prev.collected )
    => (new_items = <<>> /\ pc = "send_empty")

C6_CacheBounded ==
    cache_file.readable => Len(cache_file.links) <= MAX_CACHE

\* the second run gave save_cache more than MAX_CACHE links and it wrote
\* MAX_CACHE of them
C6_Witness ==
    /\ run = 2 /\ pc = "done" /\ saves = <<"written">>
    /\ Cardinality(sent \cup LinksOf(new_items)) > MAX_CACHE
    /\ Len(cache_file.links) = MAX_CACHE

\* len("\n".join(chunk))
RECURSIVE SumLen(_)
SumLen(c) == IF c = <<>> THEN 0 ELSE c[1].len + SumLen(Tail(c))

JoinLen(c) == IF c = <<>> THEN 0 ELSE SumLen(c) + Len(c) - 1

(* C7: no delivered chunk is longer than the budget, except a chunk made   *)
(* of one line that is itself longer than the budget; a line longer than   *)
(* the budget is always alone in its chunk.                                *)
C7_ChunkWithinBudget ==
    \A c \in Range(delivered) :
        /\ JoinLen(c) > Budget => (Len(c) = 1 /\ c[1].len > Budget)
        /\ \A k \in DOMAIN c : c[k].len > Budget => Len(c) = 1

\* a digest sent as a full chunk of several lines followed by a chunk that
\* holds one block longer than the budget
C7_Witness ==
    /\ pc = "save" /\ Len(delivered) >= 2
    /\ \E c \in Range(delivered) : Len(c) = 1 /\ JoinLen(c) > Budget
    /\ \E c \in Range(delivered) : Len(c) > 3 /\ JoinLen(c) = Budget - 1

\* the kinds of line the chunks delivered so far are made of
DeliveredKinds == UNION {{c[k].kind : k \in DOMAIN c} : c \in Range(delivered)}

(* C11: when no item is left after the dedup filter, the run delivers      *)
(* exactly one chunk, the "no new items" message with now_kst of the run,  *)
(* and then returns: no header, category header or item block goes out,    *)
(* nothing is sent before or after it and the store is not written.  The   *)
(* message goes out in no other case.                                      *)
C11_EmptyDigestOneMessage ==
    /\ pc = "send_empty" => (new_items = <<>> /\ delivered = <<>>)
    /\ (pc = "done" /\ new_items = <<>>) =>
           /\ Len(delivered) = 1 /\ n_post = 1
           /\ delivered[1] = <<Line("empty", HeaderLen + 24, 0, 0, now_kst)>>
           /\ saves = <<>>
    /\ (pc = "failed" /\ new_items = <<>>) => delivered = <<>>
    /\ "empty" \in DeliveredKinds => (new_items = <<>> /\ DeliveredKinds = {"empty"})

\* every item collected was in the store, and the run ended after the one
\* message, stamped with the later of the two clock readings
C11_Witness ==
    /\ pc = "done" /\ all_items # <<>> /\ new_items = <<>>
    /\ now_kst = 2 * Day + 1
    /\ Len(delivered) = 1 /\ delivered[1][1].kind = "empty"
    /\ delivered[1][1].dt = now_kst

\* the item blocks of the chunks delivered so far
DeliveredBlocks ==
    LET Blocks(c) == Cardinality({k \in DOMAIN c : c[k].kind = "item"})
        F[k \in 0..Len(delivered)] ==
            IF k = 0 THEN 0 ELSE F[k - 1] + Blocks(delivered[k])
    IN  F[Len(delivered)]

(* C12: when the read or the parse in load_cache raises, the set it        *)
(* returns is empty and the exception goes no further: the run goes on to  *)
(* the digest, no item is filtered out, and a run that sends all its       *)
(* chunks delivers a block for every item collected in the window, also    *)
(* for links the file holds.  A run that fails after such a load fails in  *)
(* send, not in load_cache.                                                *)
C12_LoadFailsOpen ==
    load_raised =>
        /\ sent = {}
        /\ new_items = SortDesc(all_items)
        /\ pc \in {"send_empty", "chunk", "save", "done", "failed"}
        /\ pc # "failed" => error = "none"
        /\ pc = "failed" =>
               \/ error = "config" /\ ~cfg_ok /\ n_post = 0
               \/ error = "transport" /\ n_post = Len(delivered) + 1
        /\ pc \in {"save", "done"} =>
               /\ DeliveredLinks = LinksOf(all_items)
               /\ all_items # <<>> => DeliveredBlocks = Len(all_items)

\* the file could not be read although it holds a link the run collected,
\* and the digest with that link went out
C12_Witness ==
    /\ pc = "save" /\ load_raised
    /\ cache_file.readable
    /\ Range(cache_file.links) \cap LinksOf(all_items) # {}
    /\ DeliveredLinks = LinksOf(all_items)

\* the lines of the chunks delivered so far, in delivery order
DeliveredLines ==
    LET F[k \in 0..Len(delivered)] ==
            IF k = 0 THEN <<>> ELSE F[k - 1] \o delivered[k]
    IN  F[Len(delivered)]

(* C13: within a run the file of the store is written at most once, and    *)
(* only when every chunk of a non-empty digest has been sent and accepted; *)
(* a run whose send fails, or that has no new item, never calls save_cache *)
(* and leaves the file as it was.  Every link the write adds to the file   *)
(* is the link of a block of a delivered chunk.                            *)
C13_SaveOnlyAfterDelivery ==
    [][ (cache_file' # cache_file \/ Len(saves') > Len(saves)) =>
            /\ pc = "save" /\ saves = <<>> /\ error = "none"
            /\ new_items # <<>>
            /\ n_post = Len(delivered) /\ DeliveredLines = lines
            /\ LinksOf(new_items) \subseteq DeliveredLinks
            /\ Range(cache_file'.links) \ Range(cache_file.links)
                   \subseteq DeliveredLinks
            /\ pc' = "done" ]_vars

\* a digest of two chunks went out and the store was written, once, with a
\* link of the digest in it
C13_Witness ==
    /\ pc = "done" /\ saves = <<"written">>
    /\ Len(delivered) = 2 /\ n_post = 2
    /\ Range(cache_file.links) \cap DeliveredLinks # {}
    /\ Range(cache_file.links) \cap DeliveredLinks \cap sent = {}

\* the rows of rs that are not too old, resolve, and fall in the window
Kept(rs) ==
    SelectSeq(rs, LAMBDA row : /\ ~RowTooOld(row, now_kst)
                               /\ Resolved(row)
                               /\ InWindow(row.stamp, since_kst, now_kst))

(* C14: the stop signal does not cut its page short.  Of the rows of the   *)
(* page processed so far, every row whose coarse date is not before        *)
(* (now - 24h).date(), before or after the row that raised the signal, has *)
(* had its detail page requested, and the items kept from the page are     *)
(* exactly those of them that resolve to a timestamp in the window, in row *)
(* order.                                                                  *)
C14_StopKeepsRestOfPage ==
    pc = "row" =>
        /\ got = {j \in 1..(ri - 1) : ~RowTooOld(rows[j], now_kst)}
        /\ PageItems = [k \in 1..Len(Kept(Done)) |-> MakeItem(Kept(Done)[k], cat)]
        /\ stop_paging = RowsStop(Done)

\* the first row of a page raised the signal and the second row, dated
\* today, was fetched and kept
C14_Witness ==
    /\ pc = "row" /\ ri > Len(rows) /\ Len(rows) = 2
    /\ RowTooOld(rows[1], now_kst) /\ stop_paging
    /\ got = {2}
    /\ Len(PageItems) = 1 /\ PageItems[1].dt = rows[2].stamp

\* the item blocks delivered so far, in delivery order
DeliveredItems == SelectSeq(DeliveredLines, LAMBDA ln : ln.kind = "item")

\* the one-to-one maps of 1..n onto itself
Perms(n) == {f \in [1..n -> 1..n] : \A a, b \in 1..n : f[a] = f[b] => a = b}

\* f lists the indices of src newest first, equal timestamps in their order
\* in src
NewestFirstStable(f, src) ==
    \A i, j \in DOMAIN f :
        i < j => \/ src[f[i]].dt > src[f[j]].dt
                 \/ src[f[i]].dt = src[f[j]].dt /\ f[i] < f[j]

(* C15: across the chunks of a digest the item blocks come in              *)
(* non-increasing order of timestamp, and blocks with equal timestamps     *)
(* come in the order their items were collected, which is the order of     *)
(* all_items: category by category in the declared order, within a         *)
(* category in the order the rows were processed.  A digest sent in full   *)
(* has a block for every new item.                                         *)
C15_NewestFirstStable ==
    LET src == Dedup(all_items, sent)
        D == DeliveredItems
    IN  /\ \A i, j \in DOMAIN all_items :
               i < j => all_items[i].category <= all_items[j].category
        /\ \A i, j \in DOMAIN D : i < j => D[i].dt >= D[j].dt
        /\ D # <<>> =>
               \E f \in Perms(Len(src)) :
                   /\ NewestFirstStable(f, src)
                   /\ Len(D) <= Len(src)
                   /\ \A k \in DOMAIN D : D[k] = ItemLine(src[f[k]])
        /\ (pc = "save" /\ D # <<>>) => Len(D) = Len(src)

\* two items of equal timestamp, the second category's collected after the
\* first's, went out in that order
C15_Witness ==
    /\ pc = "save" /\ Len(DeliveredItems) = 2
    /\ DeliveredItems[1].dt = DeliveredItems[2].dt
    /\ DeliveredItems[1].category < DeliveredItems[2].category
    /\ DeliveredItems[1].link # DeliveredItems[2].link

\* the index of the last item block of lines before index k, 0 when none
PrevItem(k) ==
    LET S == {j \in 1..(k - 1) : lines[j].kind = "item"}
    IN  IF S = {} THEN 0 ELSE CHOOSE j \in S : \A i \in S : i <= j

\* the block at index k opens a category: it is the first block, or the
\* block before it is of another category
OpensCategory(k) ==
    PrevItem(k) = 0 \/ lines[PrevItem(k)].category # lines[k].category

(* C16: in the rendered lines a category header stands exactly where the   *)
(* category changes.  A block that is the first one, or whose category is  *)
(* not that of the block before it, has the header of its own category     *)
(* right before it; a block of the same category as the block before it    *)
(* follows that block with no line in between; and a category header is    *)
(* nowhere else.                                                           *)
C16_HeaderWhereCategoryChanges ==
    lines # <<>> =>
        /\ lines[1].kind = "header" /\ lines[2].kind = "blank"
        /\ \A k \in 3..Len(lines) : lines[k].kind \in {"category", "item"}
        /\ \A k \in DOMAIN lines :
               lines[k].kind = "item" =>
                   IF OpensCategory(k)
                      THEN /\ lines[k - 1].kind = "category"
                           /\ lines[k - 1].category = lines[k].category
                      ELSE PrevItem(k) = k - 1
        /\ \A k \in DOMAIN lines :
               lines[k].kind = "category" =>
                   /\ k < Len(lines)
                   /\ lines[k + 1].kind = "item"
                   /\ lines[k + 1].category = lines[k].category
                   /\ OpensCategory(k + 1)

\* a digest of three blocks went out: two of one category under one header,
\* then the header of another category and its block
C16_Witness ==
    /\ pc = "save" /\ Len(lines) = 7
    /\ lines[3].kind = "category" /\ lines[4].kind = "item"
    /\ lines[5].kind = "item" /\ lines[5].category = lines[4].category
    /\ lines[6].kind = "category" /\ lines[6].category # lines[3].category
    /\ lines[7].kind = "item"

\* the listing shows the calendar date of the timestamp on the detail page
DateAgrees(row) == row.stamp # NoStamp /\ row.date = DateOf(row.stamp)

(* C17: the coarse-date test loses no item of the window.  A row whose     *)
(* listing date is the calendar date of its detail timestamp, with         *)
(* since <= timestamp <= now, is not skipped by the test: its detail page  *)
(* is requested and, when the request succeeds, the item is kept.  The     *)
(* rows the test skips are rows the window test would reject.              *)
C17_PreFilterLosesNothing ==
    pc = "row" =>
        \A j \in 1..(ri - 1) :
            /\ (DateAgrees(rows[j]) /\ InWindow(rows[j].stamp, since_kst, now_kst)) =>
                   /\ ~RowTooOld(rows[j], now_kst)
                   /\ j \in got
                   /\ rows[j].get = "ok" =>
                          \E it \in Range(PageItems) : it.dt = rows[j].stamp
            /\ (DateAgrees(rows[j]) /\ RowTooOld(rows[j], now_kst)) =>
                   ~InWindow(rows[j].stamp, since_kst, now_kst)

\* a page with a row of yesterday, stamped at the lower edge of the window,
\* that was fetched and kept, and a row of the day before, which was skipped
C17_Witness ==
    /\ pc = "row" /\ ri > Len(rows) /\ Len(rows) = 2
    /\ DateAgrees(rows[1]) /\ rows[1].stamp = since_kst
    /\ rows[1].date < DateOf(now_kst)
    /\ DateAgrees(rows[2]) /\ RowTooOld(rows[2], now_kst)
    /\ got = {1}
    /\ Len(PageItems) = 1 /\ PageItems[1].dt = since_kst

(* C18 as stated: no two item blocks of the digest of a run carry the same *)
(* link, also when the link came with more than one listing row, page or   *)
(* category of the run.                                                    *)
C18_LinkOnceInDigest ==
    \A i, j \in DOMAIN DeliveredItems :
        i < j => DeliveredItems[i].link # DeliveredItems[j].link

(* C19: the chunk loop loses nothing and keeps the order.  At every point  *)
(* of the loop the lines of the chunks sent, followed by the lines of the  *)
(* chunk being filled, are the lines rendered so far, each line whole and  *)
(* once; when the loop and the last send are over the chunks delivered     *)
(* hold exactly the rendered lines.  No chunk given to send is without a   *)
(* line, and none is the empty text.                                       *)
C19_ChunkingLossless ==
    /\ (pc \in {"chunk", "failed"} /\ lines # <<>>) =>
           DeliveredLines \o chunk = SubSeq(lines, 1, li - 1)
    /\ pc = "save" => (DeliveredLines = lines /\ li = Len(lines) + 1)
    /\ \A c \in Range(delivered) : c # <<>> /\ JoinLen(c) > 0
    /\ pc = "chunk" /\ li > 1 => chunk # <<>>

\* a digest went out in three chunks, the first of them with several lines
C19_Witness ==
    /\ pc = "save" /\ Len(delivered) = 3
    /\ Len(delivered[1]) > 2
    /\ Len(lines) = Len(delivered[1]) + Len(delivered[2]) + Len(delivered[3])
    /\ DeliveredLines = lines

====
